---- MODULE Spec2Model ----
(***************************************************************************)
(* Model of scoretracker-core's file-based lock (src/util/lockfile.rs),    *)
(* the task queue (src/hive/queue.rs, src/hive/task.rs) and the worker     *)
(* dispatch protocol (src/hive/worker/mod.rs).                             *)
(*                                                                         *)
(* One guarded path is modelled.  Its lock marker is a file that either    *)
(* does not exist or was created by one process.  Every filesystem call    *)
(* of the code is one atomic step; everything between two filesystem calls *)
(* is local to the process and folded into the step that follows it.       *)
(***************************************************************************)
EXTENDS Naturals, Sequences, FiniteSets, TLC

\* ---------------------------------------------------------------- bounds
MaxCalls == 3
MaxOps == 2
MaxLen == 2
MaxQueueCalls == 1
MaxFrames == 2
MaxDepth == 2

\* Every uuid a run can mention: one Task on disk at the start, one more per
\* producer operation, and one that no Task has.
Uuids == 1..(MaxOps + 2)

Procs == {1, 2, 3}
Workers == {1, 2}
Conns == {1, 2}
NoOne == 0
NoOp == [kind |-> "none", uuid |-> 0, n |-> 0, job |-> "none", arg |-> "none"]

VARIABLES
    marker,     \* creator of the marker file on disk, NoOne when it does not exist
    lpc,        \* per process: position inside a LockfileHandle call
    site,       \* per process: which acquire call of the code is (or was last) running
    watch,      \* per process: state of its notify watch on the marker path
    events,     \* per process: kinds of notify events pending in its channel
    lres,       \* per process: result of its last acquire / acquire_wait / unlock
    held,       \* per process: it owns a LockfileHandle that it has not released
    removes,    \* per process: fs::remove_file calls made for its latest handle
    ioFaults,   \* I/O faults the environment may still inject into calls on the marker file
    qFaults,    \* I/O faults the environment may still inject into calls on the queue file
    calls,      \* lock calls started by all processes (bounds the run)
    fexists,    \* the queue file exists on disk
    file,       \* the Tasks the lines of the queue file deserialize to, in stored order
    wr,         \* the process whose write_json_lines has truncated the file and not finished
    pc,         \* per worker: position inside its queue operation
    op,         \* per worker: the operation it runs (kind, requested uuid, number)
    mem,        \* per worker: TaskQueueLock.tasks, its in-memory copy of the queue
    cur,        \* per worker: `task`, its clone of the Task it claimed
    res,        \* per worker: outcome of its last queue operation
    ops,        \* queue operations started so far (also the source of timestamps)
    made,       \* Tasks created so far with Task::new (the next uuid is made + 1)
    execs,      \* per uuid: how many times a worker has run that Task's Job
    wname,      \* WorkerInfo.name of worker process 1
    exit,       \* per worker process: its exit code, Running while it has not exited
    cpc,        \* per connection to worker 1: position of its thread (none, receive, handle, closed)
    inbox,      \* per connection: frames the peer has sent and the thread has not read
    rx,         \* per connection: what the last receive_message returned, how the last send went
    consumed,   \* per connection: body bytes the thread has read so far
    sent,       \* per connection: OutgoingMessages written to it, in order
    config,     \* Config.shared_data_repo_path of the worker
    main_file_path, \* per caller of acquire: the path it asked to guard
    lockfile_path   \* per caller of acquire: what lockfile_path_for returned for it

lockVars == <<marker, lpc, site, watch, events, lres, held, removes, ioFaults, calls>>

queueVars == <<qFaults, fexists, file, wr, pc, op, mem, cur, res, ops, made, execs>>

ipcVars == <<wname, exit, cpc, inbox, rx, consumed, sent>>

pathVars == <<config, main_file_path, lockfile_path>>

vars == <<marker, lpc, site, watch, events, lres, held, removes, ioFaults, calls,
          qFaults, fexists, file, wr, pc, op, mem, cur, res, ops, made, execs,
          wname, exit, cpc, inbox, rx, consumed, sent,
          config, main_file_path, lockfile_path>>

\* ------------------------------------------------------------ error values
Ok == [tag |-> "Ok", kind |-> "none"]
NoResult == [tag |-> "NoResult", kind |-> "none"]
Err(t, k) == [tag |-> t, kind |-> k]

\* Error::is_already_locked
is_already_locked(e) ==
    e.tag = "CannotCreateLockfile" /\ e.kind = "AlreadyExists"

\* is_file_locked(&Result<T>)
is_file_locked(r) ==
    IF r.tag # "Ok" THEN is_already_locked(r) ELSE FALSE

\* ------------------------------------------------------- filesystem, notify
\* A create that does not fail on an existing file (File::create).
CreateNewOk_NotExclusive(m) == TRUE

\* File::create_new succeeds exactly when the path does not exist.
CreateNewOk(m) == m = NoOne

\* Watchers holding a live watch on the marker's inode.
Live == {q \in Procs : watch[q] = "live"}

\* Events notify delivers to the live watchers when the marker is deleted:
\* the watch then points at a file that is gone.
EventsAfterRemove(q) ==
    IF q \in Live /\ marker # NoOne THEN events[q] \cup {"remove"} ELSE events[q]

WatchAfterRemove(q) ==
    IF q \in Live /\ marker # NoOne THEN "dead" ELSE watch[q]

\* Events notify delivers when process p writes the provenance text into the marker
\* it created and closes it (a data modification and an access/close event); a
\* marker that was deleted under p is no longer the watched file.
EventsAfterWrite(q, p) ==
    IF q \in Live /\ marker = p THEN events[q] \cup {"modify", "other"} ELSE events[q]

\* watcher.watch(path) fails on a path that does not exist.
WatchOk(m) == m # NoOne

\* -------------------------------------------------------------------- Init
LockInit ==
    /\ marker = NoOne
    /\ lpc = [p \in Procs |-> "none"]
    /\ site = [p \in Procs |-> "none"]
    /\ watch = [p \in Procs |-> "none"]
    /\ events = [p \in Procs |-> {}]
    /\ lres = [p \in Procs |-> NoResult]
    /\ held = [p \in Procs |-> FALSE]
    /\ removes = [p \in Procs |-> 0]
    /\ calls = 0

\* ------------------------------------------------- LockfileHandle::acquire
\* A call returns: the watcher and its channel (locals of acquire_wait) are dropped.
Return(p, r) ==
    /\ lpc' = [lpc EXCEPT ![p] = "none"]
    /\ lres' = [lres EXCEPT ![p] = r]
    /\ held' = [held EXCEPT ![p] = (r = Ok)]
    /\ UNCHANGED removes

\* Where acquire_wait goes when the acquire at `s` reported "already locked".
AfterLocked(s) ==
    CASE s = "initial" -> "watch"
      [] s = "after_setup" -> "recv"
      [] s = "notification" -> "rewatch"

\* An acquire whose create_new failed with error r: plain acquire returns r;
\* acquire_wait returns r unless is_file_locked, and otherwise goes on waiting.
CreateFailed(p, r) ==
    IF site[p] # "plain" /\ is_file_locked(r)
      THEN /\ lpc' = [lpc EXCEPT ![p] = AfterLocked(site[p])]
           /\ UNCHANGED <<watch, events, lres, held, removes>>
      ELSE /\ Return(p, r)
           /\ watch' = [watch EXCEPT ![p] = "none"]
           /\ events' = [events EXCEPT ![p] = {}]

\* create_lockfile_on_disk, first half: File::create_new(lockfile_path).
Create(p) ==
    /\ lpc[p] = "create"
    /\ \/ /\ CreateNewOk(marker)
          /\ marker' = p
          /\ lpc' = [lpc EXCEPT ![p] = "write"]
          /\ UNCHANGED <<site, watch, events, lres, held, removes, ioFaults, calls>>
       \/ /\ ~CreateNewOk(marker)
          /\ CreateFailed(p, Err("CannotCreateLockfile", "AlreadyExists"))
          /\ UNCHANGED <<marker, site, ioFaults, calls>>
       \/ /\ ioFaults > 0
          /\ ioFaults' = ioFaults - 1
          /\ CreateFailed(p, Err("CannotCreateLockfile", "Other"))
          /\ UNCHANGED <<marker, site, calls>>

\* create_lockfile_on_disk, second half: write_all of the provenance text; then
\* acquire returns the handle, and so does acquire_wait (the file was not locked).
Write(p) ==
    /\ lpc[p] = "write"
    /\ watch' = [q \in Procs |-> IF q = p THEN "none" ELSE watch[q]]
    /\ \/ /\ Return(p, Ok)
          /\ events' = [q \in Procs |-> IF q = p THEN {} ELSE EventsAfterWrite(q, p)]
          /\ UNCHANGED <<marker, site, ioFaults, calls>>
       \/ /\ ioFaults > 0
          /\ ioFaults' = ioFaults - 1
          /\ Return(p, Err("CannotWriteLockfile", "Other"))
          /\ events' = [events EXCEPT ![p] = {}]
          /\ UNCHANGED <<marker, site, calls>>

\* --------------------------------------------- LockfileHandle::acquire_wait
\* recommended_watcher + watcher.watch(&lockfile_path), then the second acquire.
Watch(p) ==
    /\ lpc[p] = "watch"
    /\ IF WatchOk(marker)
         THEN /\ watch' = [watch EXCEPT ![p] = "live"]
              /\ lpc' = [lpc EXCEPT ![p] = "create"]
              /\ site' = [site EXCEPT ![p] = "after_setup"]
              /\ UNCHANGED <<marker, events, lres, held, removes, ioFaults, calls>>
         ELSE /\ Return(p, Err("CannotWatchLockfile", "PathNotFound"))
              /\ UNCHANGED <<marker, site, watch, events, ioFaults, calls>>

\* for res in rx: take one event; on a remove or modify event try acquire again.
Recv(p) ==
    /\ lpc[p] = "recv"
    /\ \E e \in events[p] :
         /\ events' = [events EXCEPT ![p] = events[p] \ {e}]
         /\ IF e \in {"remove", "modify"}
              THEN /\ lpc' = [lpc EXCEPT ![p] = "create"]
                   /\ site' = [site EXCEPT ![p] = "notification"]
              ELSE /\ lpc' = [lpc EXCEPT ![p] = "rewatch"]
                   /\ UNCHANGED site
    /\ UNCHANGED <<marker, watch, lres, held, removes, ioFaults, calls>>

\* watcher.unwatch (errors ignored) followed by watcher.watch again.
Rewatch(p) ==
    /\ lpc[p] = "rewatch"
    /\ IF WatchOk(marker)
         THEN /\ watch' = [watch EXCEPT ![p] = "live"]
              /\ lpc' = [lpc EXCEPT ![p] = "recv"]
              /\ UNCHANGED <<marker, site, events, lres, held, removes, ioFaults, calls>>
         ELSE /\ Return(p, Err("CannotWatchLockfile", "PathNotFound"))
              /\ watch' = [watch EXCEPT ![p] = "none"]
              /\ events' = [events EXCEPT ![p] = {}]
              /\ UNCHANGED <<marker, site, ioFaults, calls>>

\* ------------------------------------------------------ release of a handle
\* fs::remove_file(&self.lockfile_path): deletes whatever file is at the path.
RemoveFile(p) ==
    /\ marker' = NoOne
    /\ events' = [q \in Procs |-> EventsAfterRemove(q)]
    /\ watch' = [q \in Procs |-> WatchAfterRemove(q)]
    /\ removes' = [removes EXCEPT ![p] = removes[p] + 1]

\* impl Drop for LockfileHandle, for a handle that goes out of scope.
DropHandle(p) ==
    /\ lpc[p] = "none"
    /\ held[p]
    /\ RemoveFile(p)
    /\ held' = [held EXCEPT ![p] = FALSE]
    /\ lres' = [lres EXCEPT ![p] = NoResult]
    /\ UNCHANGED <<lpc, site, ioFaults, calls>>

\* LockfileHandle::unlock(self), up to the return of its own remove_file.
Unlock(p) ==
    /\ lpc[p] = "none"
    /\ held[p]
    /\ RemoveFile(p)
    /\ held' = [held EXCEPT ![p] = FALSE]
    /\ lpc' = [lpc EXCEPT ![p] = "unlock_drop"]
    /\ lres' = [lres EXCEPT ![p] =
                  IF marker # NoOne THEN Ok ELSE Err("CannotRemoveLockfile", "NotFound")]
    /\ UNCHANGED <<site, ioFaults, calls>>

\* End of unlock(self): `self` goes out of scope there and its Drop runs.
UnlockDrop(p) ==
    /\ lpc[p] = "unlock_drop"
    /\ RemoveFile(p)
    /\ lpc' = [lpc EXCEPT ![p] = "none"]
    /\ UNCHANGED <<site, lres, held, ioFaults, calls>>

\* ------------------------------------------- clients of the lock (SpecLock)
\* Entry of LockfileHandle::acquire / acquire_wait: nothing has touched the disk yet.
BeginAcquire(p, s) ==
    /\ lpc' = [lpc EXCEPT ![p] = "create"]
    /\ site' = [site EXCEPT ![p] = s]
    /\ removes' = [removes EXCEPT ![p] = 0]

StartAcquire(p) ==
    /\ lpc[p] = "none" /\ ~held[p] /\ calls < MaxCalls
    /\ BeginAcquire(p, "plain")
    /\ calls' = calls + 1
    /\ UNCHANGED <<marker, watch, events, lres, held, ioFaults>>

StartAcquireWait(p) ==
    /\ lpc[p] = "none" /\ ~held[p] /\ calls < MaxCalls
    /\ BeginAcquire(p, "initial")
    /\ calls' = calls + 1
    /\ UNCHANGED <<marker, watch, events, lres, held, ioFaults>>

LockNext ==
    \E p \in Procs :
        \/ StartAcquire(p) /\ UNCHANGED <<queueVars, ipcVars, pathVars>>
        \/ StartAcquireWait(p) /\ UNCHANGED <<queueVars, ipcVars, pathVars>>
        \/ Create(p) /\ UNCHANGED <<queueVars, ipcVars, pathVars>>
        \/ Write(p) /\ UNCHANGED <<queueVars, ipcVars, pathVars>>
        \/ Watch(p) /\ UNCHANGED <<queueVars, ipcVars, pathVars>>
        \/ Recv(p) /\ UNCHANGED <<queueVars, ipcVars, pathVars>>
        \/ Rewatch(p) /\ UNCHANGED <<queueVars, ipcVars, pathVars>>
        \/ DropHandle(p) /\ UNCHANGED <<queueVars, ipcVars, pathVars>>
        \/ Unlock(p) /\ UNCHANGED <<queueVars, ipcVars, pathVars>>
        \/ UnlockDrop(p) /\ UNCHANGED <<queueVars, ipcVars, pathVars>>

\* ------------------------------------------------- paths (Path, Config)
\* A Path is what it starts with ("rel": nothing, "cur": `./`, "root": `/`) and
\* its components after that; a component is a file name written as the pieces
\* it is made of, so that appending a suffix is appending a piece.
NoPath == [prefix |-> "none", comps |-> <<>>]

NotUTF8 == <<"\\xFF">>

DirNames == {<<"directory">>, <<"subdir">>}

FileNames == {<<"test.txt">>, <<"test.txt", ".lock">>, <<"test.txt", ".lockfile">>,
              <<"..">>, NotUTF8}

\* Directory paths of up to MaxDepth components.
DirPaths ==
    UNION {[prefix : {"rel", "cur", "root"}, comps : [1..n -> DirNames]]
             : n \in 0..MaxDepth}

\* Paths a caller may ask to guard: a directory path, or a name in a directory.
TestPaths ==
    DirPaths \cup {[d EXCEPT !.comps = Append(d.comps, f)] : d \in DirPaths, f \in FileNames}

\* Path::parent: the path without its last component (for `.` that is the empty
\* path); None for the empty path and for the root.
parent(p) ==
    IF p.comps # <<>> THEN [p EXCEPT !.comps = SubSeq(p.comps, 1, Len(p.comps) - 1)]
    ELSE IF p.prefix = "cur" THEN [prefix |-> "rel", comps |-> <<>>]
    ELSE NoPath

\* Path::file_name: None when there is no last component or it is `..`.
file_name(p) ==
    IF p.comps = <<>> \/ p.comps[Len(p.comps)] = <<"..">>
      THEN <<>> ELSE p.comps[Len(p.comps)]

\* OsStr::to_str
to_str(name) == IF name = NotUTF8 THEN <<>> ELSE name

\* Path::join with a relative path of one component.
join(p, name) == [p EXCEPT !.comps = Append(p.comps, name)]

\* LockfileHandle::lockfile_path_for
lockfile_path_for(p) ==
    IF parent(p) = NoPath THEN [tag |-> "NoParentPath", path |-> NoPath]
    ELSE IF file_name(p) = <<>> THEN [tag |-> "NoFilename", path |-> NoPath]
    ELSE IF to_str(file_name(p)) = <<>> THEN [tag |-> "FilenameIsNotUTF8", path |-> NoPath]
    ELSE [tag |-> "Ok", path |-> join(parent(p), to_str(file_name(p)) \o <<".lock">>)]

\* LibraryDatabaseLock::STANDARD_FILENAME
LibraryDatabase_STANDARD_FILENAME == <<"library_database.json">>

\* Config::library_database_path
library_database_path(c) == join(c, LibraryDatabase_STANDARD_FILENAME)

\* Who calls LockfileHandle::acquire(_wait): Worker::open_queue, the Job's
\* open_library_database, and two other users of the lock.
Clients == {"first", "second"}

Callers == {"open_queue", "open_library_database"} \cup Clients

\* shared_data_repo_path values of a Config.
Configs == {[prefix |-> "root", comps |-> <<<<"directory">>>>],
            [prefix |-> "cur", comps |-> <<>>]}

PathIdle ==
    /\ config = [prefix |-> "root", comps |-> <<<<"directory">>>>]
    /\ main_file_path = [c \in Callers |-> NoPath]
    /\ lockfile_path = [c \in Callers |-> [tag |-> "NoResult", path |-> NoPath]]

\* LockfileHandle::acquire(path), up to `let lockfile_path = Self::lockfile_path_for(&path)?`.
AcquirePath(c, p) ==
    /\ main_file_path[c] = NoPath
    /\ main_file_path' = [main_file_path EXCEPT ![c] = p]
    /\ lockfile_path' = [lockfile_path EXCEPT ![c] = lockfile_path_for(p)]
    /\ UNCHANGED config

\* Worker::open_queue: read_or_create_new_safe(self.config.library_database_path(), ..)
open_queue == AcquirePath("open_queue", library_database_path(config))

\* job.rs open_library_database: read_or_create_new_safe(config.library_database_path(), ..)
open_library_database ==
    AcquirePath("open_library_database", library_database_path(config))

PathNext ==
    \/ open_queue /\ UNCHANGED <<lockVars, queueVars, ipcVars>>
    \/ open_library_database /\ UNCHANGED <<lockVars, queueVars, ipcVars>>
    \/ \E c \in Clients, p \in TestPaths :
          AcquirePath(c, p) /\ UNCHANGED <<lockVars, queueVars, ipcVars>>

\* ===================================================================== ipc
INCOMING_MESSAGE_SIZE_LIMIT == 1048576
TERMINATION_REQUEST_EXIT_CODE == 100
Running == 0

\* What receive_message has returned so far: nothing.
NoRx == [tag |-> "none", msg |-> "none", read |-> 0, buf |-> 0, send |-> "none"]

\* No connection has been accepted.
IpcIdle ==
    /\ wname = "test name"
    /\ exit = [w \in Workers |-> Running]
    /\ cpc = [c \in Conns |-> "none"]
    /\ inbox = [c \in Conns |-> <<>>]
    /\ rx = [c \in Conns |-> NoRx]
    /\ consumed = [c \in Conns |-> 0]
    /\ sent = [c \in Conns |-> <<>>]

QueueIdle ==
    /\ qFaults = 0
    /\ fexists = FALSE
    /\ file = <<>>
    /\ wr = NoOne
    /\ pc = [w \in Workers |-> "idle"]
    /\ op = [w \in Workers |-> NoOp]
    /\ mem = [w \in Workers |-> <<>>]
    /\ cur = [w \in Workers |-> <<>>]
    /\ res = [w \in Workers |-> "none"]
    /\ ops = 0
    /\ made = 0
    /\ execs = [u \in Uuids |-> 0]

\* =================================================================== queue
Jobs == {"sleep", "process_video"}

\* Task::new: a fresh uuid, the name the producer passes (here the Job's), no
\* comment, state Queued (TaskState::default), the four optional envelope fields
\* None.
Task_new(u, j, now) ==
    [uuid |-> u, name |-> j, comment |-> "none",
     job |-> j, state |-> "queued", request_timestamp |-> now,
     start_timestamp |-> 0, worker_info |-> 0, finish_timestamp |-> 0,
     result |-> "none"]

\* A search that returns the last match instead of the first.
FirstIndex_Last(S) ==
    IF S = {} THEN 0 ELSE CHOOSE i \in S : \A k \in S : i >= k

\* Iterator::find over self.tasks: the least of the matching positions S, 0 when
\* nothing matches.
FirstIndex(S) ==
    IF S = {} THEN 0 ELSE CHOOSE i \in S : \A k \in S : i <= k

IsQueued(t) == t.state = "queued"

\* TaskQueueLock::top_queued_task
top_queued_task(q) == FirstIndex({i \in 1..Len(q) : IsQueued(q[i])})

\* TaskQueueLock::top_queued_task_mut
top_queued_task_mut(q) == FirstIndex({i \in 1..Len(q) : IsQueued(q[i])})

\* TaskQueueLock::get_task_mut
get_task_mut(q, u) == FirstIndex({i \in 1..Len(q) : q[i].uuid = u})

\* The task_getter closures of take_on_task and execute_task_with_uuid.
task_getter(o, q) ==
    IF o.kind = "take" THEN top_queued_task_mut(q) ELSE get_task_mut(q, o.uuid)

getter_error(o) ==
    IF o.kind = "take" THEN "NoTopQueuedTask" ELSE "TaskNotFound"

\* An add that overwrites the stored Task when the uuid is already there.
add_task_Upsert(q, t) ==
    IF get_task_mut(q, t.uuid) = 0 THEN Append(q, t)
                                   ELSE [q EXCEPT ![get_task_mut(q, t.uuid)] = t]

\* TaskQueueLock::add_task: the queue it leaves, and what it returns.
add_task_result(q, t) ==
    IF get_task_mut(q, t.uuid) = 0 THEN "Ok" ELSE "TaskAlreadyExists"

add_task(q, t) == IF get_task_mut(q, t.uuid) = 0 THEN Append(q, t) ELSE q

\* An update that overwrites every record of the queue with the given Task.
update_task_ReplacesAll(q, t) == [i \in 1..Len(q) |-> t]

\* An update that appends the Task when its uuid is not in the queue.
update_task_Upsert(q, t) ==
    IF get_task_mut(q, t.uuid) = 0 THEN Append(q, t)
                                   ELSE [q EXCEPT ![get_task_mut(q, t.uuid)] = t]

\* TaskQueueLock::update_task: the queue it leaves, and what it returns.
update_task_result(q, t) ==
    IF get_task_mut(q, t.uuid) = 0 THEN "TaskNotFound" ELSE "Ok"

update_task(q, t) ==
    IF get_task_mut(q, t.uuid) = 0 THEN q
                                   ELSE [q EXCEPT ![get_task_mut(q, t.uuid)] = t]

\* An add_or_update that always pushes.
add_or_update_task_AlwaysPush(q, t) == Append(q, t)

\* TaskQueueLock::add_or_update_task: assign through get_task_mut, else push.
add_or_update_task(q, t) ==
    IF get_task_mut(q, t.uuid) # 0 THEN [q EXCEPT ![get_task_mut(q, t.uuid)] = t]
                                   ELSE Append(q, t)

\* A claim that fills in the timestamps but leaves the Task Queued.
MarkWorking_StaysQueued(t, w, now) ==
    [t EXCEPT !.start_timestamp = now, !.worker_info = w]

\* A claim that forgets to record who took the Task.
MarkWorking_NoWorkerInfo(t, w, now) ==
    [t EXCEPT !.state = "working", !.start_timestamp = now]

\* A claim that also leaves a comment on the Task.
MarkWorking_SetsComment(t, w, now) ==
    [t EXCEPT !.state = "working", !.start_timestamp = now, !.worker_info = w,
              !.comment = "this job was started by scoretracker-core"]

\* execute_task, "Take on a task": the three assignments to task_to_do.
MarkWorking(t, w, now) ==
    [t EXCEPT !.state = "working", !.start_timestamp = now, !.worker_info = w]

\* Job::run: Sleep returns Ok(Void), CutVideo is todo!(), ProcessVideo starts with
\* open_library_database.
JobRun(j) ==
    CASE j = "sleep" -> {"ok"}
      [] j = "process_video" -> {"open_library_database"}
      [] j = "cut_video" -> {"panic"}

\* LibraryDatabaseLock's read_from_jsonlines: every line must deserialize to a
\* LibraryEntry, and the line of a Task has no sha256 field.
read_library_entries(q) ==
    IF Len(q) = 0 THEN "Ok" ELSE "CannotDeserializeJSONLines"

\* Worker::execute_task_body for a Job that returned.
Finished(t, outcome, now) ==
    [t EXCEPT !.state = IF outcome = "ok" THEN "done" ELSE "failed",
              !.result = IF outcome = "ok" THEN "success" ELSE "error",
              !.finish_timestamp = now]

\* JSON values of a line: null, a number, a string, an object.
JsonNull == <<"null">>

JsonOption(kind, x, none) == IF x = none THEN JsonNull ELSE <<kind, x>>

FromJsonOption(j, none) == IF j = JsonNull THEN none ELSE j[2]

\* Serialize for Task (serde derive): every field is written, None as null;
\* the uuid through UuidString's to_string, timestamps as integers, state in
\* snake_case, Job and TaskResult as tagged objects.
serialize_task(t) ==
    [uuid |-> <<"str", t.uuid>>,
     name |-> <<"str", t.name>>,
     comment |-> JsonOption("str", t.comment, "none"),
     job |-> <<"obj", t.job>>,
     state |-> <<"str", t.state>>,
     request_timestamp |-> <<"num", t.request_timestamp>>,
     start_timestamp |-> JsonOption("num", t.start_timestamp, 0),
     worker_info |-> JsonOption("obj", t.worker_info, 0),
     finish_timestamp |-> JsonOption("num", t.finish_timestamp, 0),
     result |-> JsonOption("obj", t.result, "none")]

\* A deserializer that does not read the result field back.
deserialize_task_NoResult(j) ==
    [uuid |-> j.uuid[2],
     name |-> j.name[2],
     comment |-> FromJsonOption(j.comment, "none"),
     job |-> j.job[2],
     state |-> j.state[2],
     request_timestamp |-> j.request_timestamp[2],
     start_timestamp |-> FromJsonOption(j.start_timestamp, 0),
     worker_info |-> FromJsonOption(j.worker_info, 0),
     finish_timestamp |-> FromJsonOption(j.finish_timestamp, 0),
     result |-> "none"]

\* Deserialize for Task (serde derive), on a well-formed line.
deserialize_task(j) ==
    [uuid |-> j.uuid[2],
     name |-> j.name[2],
     comment |-> FromJsonOption(j.comment, "none"),
     job |-> j.job[2],
     state |-> j.state[2],
     request_timestamp |-> j.request_timestamp[2],
     start_timestamp |-> FromJsonOption(j.start_timestamp, 0),
     worker_info |-> FromJsonOption(j.worker_info, 0),
     finish_timestamp |-> FromJsonOption(j.finish_timestamp, 0),
     result |-> FromJsonOption(j.result, "none")]

\* write_as_jsonlines: one line per item, in order.
write_as_jsonlines(q) == [i \in 1..Len(q) |-> serialize_task(q[i])]

\* json_lines(..).collect(): one item per line, in order.
json_lines(lines) == [i \in 1..Len(lines) |-> deserialize_task(lines[i])]

\* A default that is not the empty queue.
unwrap_or_default_Placeholder(o) ==
    IF o = <<>> THEN <<Task_new(1, "sleep", 0)>> ELSE o[1]

\* Option::unwrap_or_default on the Option<Vec<Task>> read from the file.
unwrap_or_default(o) == IF o = <<>> THEN <<>> ELSE o[1]

\* read_from_jsonlines: None for a missing file, else Some of the Tasks its lines
\* deserialize to; a file that a writer has truncated holds no line yet.
read_from_jsonlines ==
    IF ~fexists THEN <<>> ELSE IF wr # NoOne THEN << <<>> >> ELSE <<file>>

\* lockfile.read_from_jsonlines()?.unwrap_or_default()
ReadFile == unwrap_or_default(read_from_jsonlines)

QueueInit ==
    /\ wr = NoOne
    /\ pc = [w \in Workers |-> "idle"]
    /\ op = [w \in Workers |-> NoOp]
    /\ mem = [w \in Workers |-> <<>>]
    /\ cur = [w \in Workers |-> <<>>]
    /\ res = [w \in Workers |-> "none"]
    /\ ops = 0
    /\ execs = [u \in Uuids |-> 0]
    /\ \/ fexists = FALSE /\ file = <<>> /\ made = 0
       \/ \E j \in Jobs :
            fexists = TRUE /\ file = <<Task_new(1, j, 0)>> /\ made = 1

\* A worker (or a producer) starts a queue operation: open_queue, that is
\* TaskQueueLock::read_or_create_new_safe, whose first call is acquire_wait.
Begin(w) ==
    /\ pc[w] = "idle" /\ ops < MaxOps
    /\ \E o \in [kind : {"take"}, uuid : {0}, job : {"none"}]
             \cup [kind : {"uuid"}, uuid : 1..(made + 1), job : {"none"}]
             \cup [kind : {"add"}, uuid : {made + 1}, job : Jobs] :
         /\ op' = [op EXCEPT ![w] = [kind |-> o.kind, uuid |-> o.uuid, n |-> ops + 1,
                                      job |-> o.job, arg |-> "none"]]
         /\ made' = IF o.kind = "add" THEN made + 1 ELSE made
    /\ ops' = ops + 1
    /\ pc' = [pc EXCEPT ![w] = "open"]
    /\ res' = [res EXCEPT ![w] = "none"]
    /\ BeginAcquire(w, "initial")
    /\ UNCHANGED <<marker, watch, events, lres, held, ioFaults, calls,
                   qFaults, fexists, file, wr, mem, cur, execs>>

\* read_or_create_new_safe after acquire_wait returned, then the getter and the
\* "Take on a task" assignments of execute_task (or the producer's add_task).
\* read_from_jsonlines can fail (unreadable or malformed file): the `?` returns
\* the error and the local LockfileHandle is dropped.
Open(w) ==
    /\ pc[w] = "open" /\ lpc[w] = "none"
    /\ \/ /\ IF lres[w] # Ok
                THEN /\ res' = [res EXCEPT ![w] = "CannotReadQueue"]
                     /\ pc' = [pc EXCEPT ![w] = "idle"]
                     /\ UNCHANGED <<mem, cur>>
                ELSE LET q == ReadFile
                         i == task_getter(op[w], q)
                         t == MarkWorking(q[i], w, op[w].n)
                     IN  IF op[w].kind = "add"
                           THEN /\ mem' = [mem EXCEPT ![w] =
                                             add_task(q, Task_new(op[w].uuid, op[w].job, op[w].n))]
                                /\ pc' = [pc EXCEPT ![w] = "wbegin"]
                                /\ UNCHANGED <<cur, res>>
                           ELSE IF i = 0
                             THEN /\ res' = [res EXCEPT ![w] = getter_error(op[w])]
                                  /\ pc' = [pc EXCEPT ![w] = "drop"]
                                  /\ mem' = [mem EXCEPT ![w] = q]
                                  /\ UNCHANGED cur
                             ELSE /\ mem' = [mem EXCEPT ![w] = [q EXCEPT ![i] = t]]
                                  /\ cur' = [cur EXCEPT ![w] = <<t>>]
                                  /\ pc' = [pc EXCEPT ![w] = "wbegin"]
                                  /\ UNCHANGED res
          /\ UNCHANGED qFaults
       \/ /\ lres[w] = Ok /\ qFaults > 0
          /\ qFaults' = qFaults - 1
          /\ res' = [res EXCEPT ![w] = "CannotReadQueue"]
          /\ pc' = [pc EXCEPT ![w] = "drop"]
          /\ UNCHANGED <<mem, cur>>
    /\ site' = [site EXCEPT ![w] = "none"]
    /\ lres' = [lres EXCEPT ![w] = NoResult]
    /\ UNCHANGED <<marker, lpc, watch, events, held, removes, ioFaults, calls,
                   fexists, file, wr, op, ops, made, execs>>

\* write_to_file, first half: write_json_lines creates (truncates) the file.
WriteBegin(w) ==
    /\ pc[w] \in {"wbegin", "cwbegin"}
    /\ \/ /\ wr' = w
          /\ fexists' = TRUE
          /\ pc' = [pc EXCEPT ![w] = IF pc[w] = "wbegin" THEN "wend" ELSE "cwend"]
          /\ UNCHANGED <<res, qFaults>>
       \/ /\ qFaults > 0
          /\ qFaults' = qFaults - 1
          /\ res' = [res EXCEPT ![w] = "CannotWriteQueue"]
          /\ pc' = [pc EXCEPT ![w] = "drop"]
          /\ UNCHANGED <<wr, fexists>>
    /\ UNCHANGED <<lockVars, file, op, mem, cur, ops, made, execs>>

\* write_to_file, second half: every record of self.tasks is in the file; or the
\* write fails after the truncation and the file is left without records.
WriteEnd(w) ==
    /\ pc[w] \in {"wend", "cwend"}
    /\ wr' = IF wr = w THEN NoOne ELSE wr
    /\ \/ /\ file' = json_lines(write_as_jsonlines(mem[w]))
          /\ IF pc[w] = "wend" /\ op[w].kind # "add"
               THEN pc' = [pc EXCEPT ![w] = "close"] /\ UNCHANGED res
               ELSE pc' = [pc EXCEPT ![w] = "drop"] /\ res' = [res EXCEPT ![w] = "Ok"]
          /\ UNCHANGED qFaults
       \/ /\ qFaults > 0
          /\ qFaults' = qFaults - 1
          /\ file' = <<>>
          /\ res' = [res EXCEPT ![w] = "CannotWriteQueue"]
          /\ pc' = [pc EXCEPT ![w] = "drop"]
    /\ UNCHANGED <<lockVars, fexists, op, mem, cur, ops, made, execs>>

\* TaskQueueLock::close: the TaskQueueLock, and with it the LockfileHandle, is dropped.
Close(w) ==
    /\ pc[w] = "close"
    /\ RemoveFile(w)
    /\ held' = [held EXCEPT ![w] = FALSE]
    /\ pc' = [pc EXCEPT ![w] = "exec"]
    /\ mem' = [mem EXCEPT ![w] = <<>>]
    /\ UNCHANGED <<lpc, site, lres, ioFaults, calls,
                   qFaults, fexists, file, wr, op, cur, res, ops, made, execs>>

\* execute_task_body calls Job::run.  A Job that returns is followed by
\* ClosedTaskQueue::reopen, which enters acquire_wait; a Job that panics (todo!())
\* ends the worker; ProcessVideo enters open_library_database, that is
\* acquire_wait on config.library_database_path(), the path open_queue locks.
Exec(w) ==
    /\ pc[w] = "exec"
    /\ execs' = [execs EXCEPT ![cur[w][1].uuid] = execs[cur[w][1].uuid] + 1]
    /\ \E outcome \in JobRun(cur[w][1].job) :
         CASE outcome = "panic" ->
                /\ pc' = [pc EXCEPT ![w] = "dead"]
                /\ UNCHANGED <<cur, lpc, site, removes>>
           [] outcome = "open_library_database" ->
                /\ pc' = [pc EXCEPT ![w] = "job"]
                /\ BeginAcquire(w, "initial")
                /\ UNCHANGED cur
           [] OTHER ->
                /\ cur' = [cur EXCEPT ![w] = <<Finished(cur[w][1], outcome, op[w].n)>>]
                /\ pc' = [pc EXCEPT ![w] = "reopen"]
                /\ BeginAcquire(w, "initial")
    /\ UNCHANGED <<marker, watch, events, lres, held, ioFaults, calls,
                   qFaults, fexists, file, wr, op, mem, res, ops, made>>

\* Job::run for ProcessVideo after acquire_wait returned.  An acquire_wait error
\* and a file whose lines are not LibraryEntry records come back as LibraryError
\* (the latter after the local LockfileHandle is dropped); execute_task_body stores
\* it as the Task's result and ClosedTaskQueue::reopen enters acquire_wait.  With
\* no line in the file the library opens and the Job reaches todo!(): the panic
\* ends the worker, and whether the Drop of `_library` runs depends on the panic
\* strategy of the build.
JobOpen(w) ==
    /\ pc[w] = "job" /\ lpc[w] = "none"
    /\ IF lres[w] # Ok \/ read_library_entries(ReadFile) # "Ok"
         THEN /\ cur' = [cur EXCEPT ![w] = <<Finished(cur[w][1], "err", op[w].n)>>]
              /\ pc' = [pc EXCEPT ![w] = "reopen"]
              /\ BeginAcquire(w, "initial")
              /\ IF lres[w] # Ok
                   THEN UNCHANGED <<marker, watch, events, held>>
                   ELSE /\ marker' = NoOne
                        /\ events' = [q \in Procs |-> EventsAfterRemove(q)]
                        /\ watch' = [q \in Procs |-> WatchAfterRemove(q)]
                        /\ held' = [held EXCEPT ![w] = FALSE]
         ELSE \E unwind \in BOOLEAN :
              /\ pc' = [pc EXCEPT ![w] = "dead"]
              /\ site' = [site EXCEPT ![w] = "none"]
              /\ UNCHANGED <<cur, lpc>>
              /\ IF unwind
                   THEN RemoveFile(w) /\ held' = [held EXCEPT ![w] = FALSE]
                   ELSE UNCHANGED <<marker, watch, events, held, removes>>
    /\ lres' = [lres EXCEPT ![w] = NoResult]
    /\ UNCHANGED <<ioFaults, calls,
                   qFaults, fexists, file, wr, op, mem, res, ops, made, execs>>

\* reopen after acquire_wait returned, then queue.update_task(task); a failed
\* read_from_jsonlines returns the error and drops the local LockfileHandle.
Reopen(w) ==
    /\ pc[w] = "reopen" /\ lpc[w] = "none"
    /\ \/ /\ IF lres[w] # Ok
                THEN /\ res' = [res EXCEPT ![w] = "CannotReopenQueue"]
                     /\ pc' = [pc EXCEPT ![w] = "idle"]
                     /\ cur' = [cur EXCEPT ![w] = <<>>]
                     /\ UNCHANGED mem
                ELSE LET q == ReadFile
                     IN  IF get_task_mut(q, cur[w][1].uuid) = 0
                           THEN /\ res' = [res EXCEPT ![w] = "CannotUpdateTask"]
                                /\ pc' = [pc EXCEPT ![w] = "drop"]
                                /\ mem' = [mem EXCEPT ![w] = q]
                                /\ UNCHANGED cur
                           ELSE /\ mem' = [mem EXCEPT ![w] = update_task(q, cur[w][1])]
                                /\ pc' = [pc EXCEPT ![w] = "cwbegin"]
                                /\ UNCHANGED <<res, cur>>
          /\ UNCHANGED qFaults
       \/ /\ lres[w] = Ok /\ qFaults > 0
          /\ qFaults' = qFaults - 1
          /\ res' = [res EXCEPT ![w] = "CannotReopenQueue"]
          /\ pc' = [pc EXCEPT ![w] = "drop"]
          /\ UNCHANGED <<mem, cur>>
    /\ site' = [site EXCEPT ![w] = "none"]
    /\ lres' = [lres EXCEPT ![w] = NoResult]
    /\ UNCHANGED <<marker, lpc, watch, events, held, removes, ioFaults, calls,
                   fexists, file, wr, op, ops, made, execs>>

\* A TaskQueueLock that goes out of scope without deleting its marker.
DropQueue_KeepsMarker(w) ==
    /\ pc[w] = "drop"
    /\ held' = [held EXCEPT ![w] = FALSE]
    /\ pc' = [pc EXCEPT ![w] = "idle"]
    /\ mem' = [mem EXCEPT ![w] = <<>>]
    /\ cur' = [cur EXCEPT ![w] = <<>>]
    /\ UNCHANGED <<marker, lpc, site, watch, events, lres, removes, ioFaults, calls,
                   qFaults, fexists, file, wr, op, res, ops, made, execs>>

\* The TaskQueueLock goes out of scope (an early `?` return, or the end of
\* take_on_task / execute_task_with_uuid): its LockfileHandle is dropped.
DropQueue(w) ==
    /\ pc[w] = "drop"
    /\ RemoveFile(w)
    /\ held' = [held EXCEPT ![w] = FALSE]
    /\ pc' = [pc EXCEPT ![w] = "idle"]
    /\ mem' = [mem EXCEPT ![w] = <<>>]
    /\ cur' = [cur EXCEPT ![w] = <<>>]
    /\ UNCHANGED <<lpc, site, lres, ioFaults, calls,
                   qFaults, fexists, file, wr, op, res, ops, made, execs>>

Next ==
    \E w \in Workers :
        \/ Begin(w) /\ UNCHANGED <<ipcVars, pathVars>>
        \/ Create(w) /\ UNCHANGED <<queueVars, ipcVars, pathVars>>
        \/ Write(w) /\ UNCHANGED <<queueVars, ipcVars, pathVars>>
        \/ Watch(w) /\ UNCHANGED <<queueVars, ipcVars, pathVars>>
        \/ Recv(w) /\ UNCHANGED <<queueVars, ipcVars, pathVars>>
        \/ Rewatch(w) /\ UNCHANGED <<queueVars, ipcVars, pathVars>>
        \/ Open(w) /\ UNCHANGED <<ipcVars, pathVars>>
        \/ WriteBegin(w) /\ UNCHANGED <<ipcVars, pathVars>>
        \/ WriteEnd(w) /\ UNCHANGED <<ipcVars, pathVars>>
        \/ Close(w) /\ UNCHANGED <<ipcVars, pathVars>>
        \/ Exec(w) /\ UNCHANGED <<ipcVars, pathVars>>
        \/ JobOpen(w) /\ UNCHANGED <<ipcVars, pathVars>>
        \/ Reopen(w) /\ UNCHANGED <<ipcVars, pathVars>>
        \/ DropQueue(w) /\ UNCHANGED <<ipcVars, pathVars>>

\* Workers and producers on the queue file, on a disk whose I/O does not fail.
Init ==
    LockInit /\ QueueInit /\ IpcIdle /\ ioFaults = 0 /\ qFaults = 0 /\ PathIdle

Spec == Init /\ [][Next]_vars

\* Lock clients only: the queue is idle, and the environment may inject one I/O fault.
InitLock ==
    LockInit /\ QueueIdle /\ IpcIdle /\ ioFaults = 1 /\ PathIdle

SpecLock == InitLock /\ [][LockNext]_vars

\* A worker starts take_on_task or execute_task_with_uuid.
BeginDispatch(w) == Begin(w) /\ op'[w].kind # "add"

FaultNext ==
    \E w \in Workers :
        \/ BeginDispatch(w) /\ UNCHANGED <<ipcVars, pathVars>>
        \/ Create(w) /\ UNCHANGED <<queueVars, ipcVars, pathVars>>
        \/ Write(w) /\ UNCHANGED <<queueVars, ipcVars, pathVars>>
        \/ Watch(w) /\ UNCHANGED <<queueVars, ipcVars, pathVars>>
        \/ Recv(w) /\ UNCHANGED <<queueVars, ipcVars, pathVars>>
        \/ Rewatch(w) /\ UNCHANGED <<queueVars, ipcVars, pathVars>>
        \/ Open(w) /\ UNCHANGED <<ipcVars, pathVars>>
        \/ WriteBegin(w) /\ UNCHANGED <<ipcVars, pathVars>>
        \/ WriteEnd(w) /\ UNCHANGED <<ipcVars, pathVars>>
        \/ Close(w) /\ UNCHANGED <<ipcVars, pathVars>>
        \/ Exec(w) /\ UNCHANGED <<ipcVars, pathVars>>
        \/ JobOpen(w) /\ UNCHANGED <<ipcVars, pathVars>>
        \/ Reopen(w) /\ UNCHANGED <<ipcVars, pathVars>>
        \/ DropQueue(w) /\ UNCHANGED <<ipcVars, pathVars>>

\* Workers on a disk that may fail one read or write of the queue file.
InitFault ==
    LockInit /\ QueueInit /\ IpcIdle /\ ioFaults = 0 /\ qFaults = 1 /\ PathIdle

SpecFault == InitFault /\ [][FaultNext]_vars

\* Callers of acquire on the paths they compute, under either Config.
InitPath ==
    /\ LockInit /\ QueueIdle /\ IpcIdle /\ ioFaults = 0
    /\ config \in Configs
    /\ main_file_path = [c \in Callers |-> NoPath]
    /\ lockfile_path = [c \in Callers |-> [tag |-> "NoResult", path |-> NoPath]]

SpecPath == InitPath /\ [][PathNext]_vars

\* ------------------------------------------ TaskQueueLock in memory (SpecQueue)
\* Tasks to call the queue functions with: for each uuid a Queued, a Working and
\* a Failed Task, built the way the code builds them.
TestUuids == 1..(MaxLen + 1)

TestTasks ==
    UNION {LET a == Task_new(u, "sleep", 0)
               b == MarkWorking(a, 1, 1)
               c == Task_new(u, "process_video", 0)
           IN  {a, b, Finished(MarkWorking(c, 2, 1), "err", 2)}
           : u \in TestUuids}

\* Queues a TaskQueueLock can hold: up to MaxLen Tasks with distinct uuids.
TestQueues ==
    UNION {{q \in [1..n -> TestTasks] :
               \A i, k \in 1..n : q[i].uuid = q[k].uuid => i = k} : n \in 0..MaxLen}

\* Process 1 is in read_or_create_new_safe: acquire_wait has returned its
\* LockfileHandle, the file has not been read yet.
InitQueue ==
    /\ marker = 1
    /\ lpc = [p \in Procs |-> "none"]
    /\ site = [p \in Procs |-> "none"]
    /\ watch = [p \in Procs |-> "none"]
    /\ events = [p \in Procs |-> {}]
    /\ lres = [p \in Procs |-> NoResult]
    /\ held = [p \in Procs |-> p = 1]
    /\ removes = [p \in Procs |-> 0]
    /\ calls = 0
    /\ ioFaults = 0
    /\ qFaults = 0
    /\ fexists = TRUE
    /\ file \in TestQueues
    /\ wr = NoOne
    /\ pc = [w \in Workers |-> IF w = 1 THEN "open" ELSE "idle"]
    /\ op = [w \in Workers |-> NoOp]
    /\ mem = [w \in Workers |-> <<>>]
    /\ cur = [w \in Workers |-> <<>>]
    /\ res = [w \in Workers |-> "none"]
    /\ ops = 0
    /\ made = 0
    /\ execs = [u \in Uuids |-> 0]
    /\ IpcIdle
    /\ PathIdle

\* What can be wrong with a line of the file: it is not JSON, a field of the
\* Task is missing or has the wrong type, or the uuid field is a string that is
\* not a UUID.
MalformedKinds == {"json", "field", "uuid"}

\* Deserializing one line into a Task: serde_json reports bad JSON and bad
\* fields as errors; UuidVisitor::visit_str unwraps Uuid::from_str and panics.
deserialize_line(k) ==
    CASE k = "none" -> "Ok"
      [] k \in {"json", "field"} -> "CannotDeserializeJSONLines"
      [] k = "uuid" -> "panic"

\* The rest of read_or_create_new_safe, on a file that may hold one bad line:
\* Ok builds the TaskQueueLock; an error returns through `?` and drops the
\* LockfileHandle; a panic ends the thread, and whether the handle's Drop runs
\* depends on the panic strategy of the build.
ReadQueue ==
    /\ pc[1] = "open"
    /\ \E k \in {"none"} \cup MalformedKinds, unwind \in BOOLEAN :
         LET r == deserialize_line(k)
         IN  /\ op' = [op EXCEPT ![1] = [kind |-> "read_or_create_new_safe", uuid |-> 0,
                                          n |-> 0, job |-> "none", arg |-> k]]
             /\ res' = [res EXCEPT ![1] = r]
             /\ mem' = [mem EXCEPT ![1] = IF r = "Ok" THEN ReadFile ELSE <<>>]
             /\ pc' = [pc EXCEPT ![1] = CASE r = "Ok" -> "wbegin"
                                          [] r = "panic" -> "dead"
                                          [] OTHER -> "idle"]
             /\ IF r = "Ok" \/ (r = "panic" /\ ~unwind)
                  THEN UNCHANGED <<marker, watch, events, removes, held>>
                  ELSE RemoveFile(1) /\ held' = [held EXCEPT ![1] = FALSE]
    /\ UNCHANGED <<lpc, site, lres, ioFaults, calls,
                   qFaults, fexists, file, wr, cur, ops, made, execs>>

\* One call of a queue function on the open queue: op records which function,
\* cur the Task it was given (or the Task it returned), res what it returned.
Called(kind, arg, c, r) ==
    /\ pc[1] = "wbegin" /\ ops < MaxQueueCalls
    /\ ops' = ops + 1
    /\ op' = [op EXCEPT ![1] = [kind |-> kind, uuid |-> IF c = <<>> THEN 0 ELSE c[1].uuid,
                                 n |-> ops + 1,
                                 job |-> IF c = <<>> THEN "none" ELSE c[1].job,
                                 arg |-> arg]]
    /\ cur' = [cur EXCEPT ![1] = c]
    /\ res' = [res EXCEPT ![1] = r]
    /\ UNCHANGED <<lockVars, qFaults, fexists, file, wr, made, execs>>

\* queue.add_task(t)
AddTask ==
    \E t \in TestTasks :
        /\ mem' = [mem EXCEPT ![1] = add_task(mem[1], t)]
        /\ Called("add_task", "none", <<t>>, add_task_result(mem[1], t))
        /\ UNCHANGED pc

\* queue.update_task(t)
UpdateTask ==
    \E t \in TestTasks :
        /\ mem' = [mem EXCEPT ![1] = update_task(mem[1], t)]
        /\ Called("update_task", "none", <<t>>, update_task_result(mem[1], t))
        /\ UNCHANGED pc

\* queue.add_or_update_task(t): no Result, it cannot fail.
AddOrUpdateTask ==
    \E t \in TestTasks :
        /\ mem' = [mem EXCEPT ![1] = add_or_update_task(mem[1], t)]
        /\ Called("add_or_update_task", "none", <<t>>, "Ok")
        /\ UNCHANGED pc

\* queue.top_queued_task() / queue.top_queued_task_mut(): an Option of a Task.
TopQueuedTask ==
    /\ \/ LET i == top_queued_task(mem[1])
          IN  Called("top_queued_task", "none",
                     IF i = 0 THEN <<>> ELSE <<mem[1][i]>>,
                     IF i = 0 THEN "None" ELSE "Some")
       \/ LET i == top_queued_task_mut(mem[1])
          IN  Called("top_queued_task_mut", "none",
                     IF i = 0 THEN <<>> ELSE <<mem[1][i]>>,
                     IF i = 0 THEN "None" ELSE "Some")
    /\ UNCHANGED <<mem, pc>>

QueueNext ==
    \/ ReadQueue /\ UNCHANGED <<ipcVars, pathVars>>
    \/ AddTask /\ UNCHANGED <<ipcVars, pathVars>>
    \/ UpdateTask /\ UNCHANGED <<ipcVars, pathVars>>
    \/ AddOrUpdateTask /\ UNCHANGED <<ipcVars, pathVars>>
    \/ TopQueuedTask /\ UNCHANGED <<ipcVars, pathVars>>

SpecQueue == InitQueue /\ [][QueueNext]_vars

\* ------------------------------------- the worker's control socket (SpecConn)
\* IncomingMessage, and any other body (`garbage`: not JSON, or no known type).
Bodies == {"who_are_you", "termination_request", "garbage"}

\* Length prefixes around the limit; the prefix is a u32, so it is never negative.
Sizes == {0, INCOMING_MESSAGE_SIZE_LIMIT - 1, INCOMING_MESSAGE_SIZE_LIMIT,
          INCOMING_MESSAGE_SIZE_LIMIT + 1}

\* A frame on the wire: the length prefix, what the body bytes are, and whether
\* the stream ends (or fails) before `size` body bytes have arrived.  A message
\* of any positive size can be a valid one (JSON may be padded with blanks); an
\* empty body is not JSON.
Frames ==
    {f \in [size : Sizes, body : Bodies, cut : BOOLEAN] :
        f.size = 0 => (f.body = "garbage" /\ ~f.cut)}

Inboxes == UNION {[1..n -> Frames] : n \in 0..MaxFrames}

\* Names a Worker can be constructed with (Worker::new, Worker::new_default).
WorkerNames == {"test name", "defaultworker1.scoretracker.local"}

\* process::id() of worker process w.
Pid(w) == w

\* A receive that also rejects a prefix equal to the limit.
receive_message_LimitExclusive(f) ==
    IF f.size >= INCOMING_MESSAGE_SIZE_LIMIT
      THEN [NoRx EXCEPT !.tag = "IncomingMessageTooLarge"]
      ELSE IF f.cut
        THEN [NoRx EXCEPT !.tag = "IncomingMessageContentNotRead", !.buf = f.size]
        ELSE [NoRx EXCEPT !.tag = "Ok", !.msg = f.body, !.read = f.size, !.buf = f.size]

\* receive_message once the four prefix bytes are read: the size test comes
\* before the buffer is allocated and before read_exact on the body.
receive_message(f) ==
    IF f.size > INCOMING_MESSAGE_SIZE_LIMIT
      THEN [NoRx EXCEPT !.tag = "IncomingMessageTooLarge"]
      ELSE IF f.cut
        THEN [NoRx EXCEPT !.tag = "IncomingMessageContentNotRead", !.buf = f.size]
        ELSE [NoRx EXCEPT !.tag = "Ok", !.msg = f.body, !.read = f.size, !.buf = f.size]

\* IncomingMessage::parse
parse(body) ==
    IF body \in {"who_are_you", "termination_request"}
      THEN body ELSE "IncomingMessageNotDeserialized"

\* handle_message, WhoAreYou: the OutgoingMessage it builds.
who_are_you_response(w) ==
    [type |-> "who_are_you_response", name |-> "test name", pid |-> Pid(w)]

\* Connection 1 to worker 1 has been accepted and its thread started; the peer
\* has written some frames.  No other connection has been made.
ConnInit ==
    /\ wname \in WorkerNames
    /\ exit = [w \in Workers |-> Running]
    /\ cpc = [c \in Conns |-> IF c = 1 THEN "receive" ELSE "none"]
    /\ \E i \in Inboxes : inbox = [c \in Conns |-> IF c = 1 THEN i ELSE <<>>]
    /\ rx = [c \in Conns |-> NoRx]
    /\ consumed = [c \in Conns |-> 0]
    /\ sent = [c \in Conns |-> <<>>]

\* connection_handler: receive_message(tcp_stream).  With nothing left to read
\* the peer may close the stream, and read_exact on the prefix fails.
ReceiveMessage(c) ==
    /\ cpc[c] = "receive" /\ exit[1] = Running
    /\ cpc' = [cpc EXCEPT ![c] = "handle"]
    /\ IF inbox[c] = <<>>
         THEN /\ rx' = [rx EXCEPT ![c] = [NoRx EXCEPT !.tag = "IncomingMessageSizeNotRead"]]
              /\ UNCHANGED <<inbox, consumed>>
         ELSE /\ rx' = [rx EXCEPT ![c] = receive_message(Head(inbox[c]))]
              /\ inbox' = [inbox EXCEPT ![c] = Tail(inbox[c])]
              /\ consumed' = [consumed EXCEPT ![c] =
                                consumed[c] + receive_message(Head(inbox[c])).read]
    /\ UNCHANGED <<lockVars, queueVars, wname, exit, sent>>

\* A shutdown that takes every connection of the worker down with it.
Shutdown_AllConnections(c) ==
    /\ cpc[c] = "handle" /\ exit[1] = Running
    /\ rx[c].tag # "Ok"
    /\ cpc' = [d \in Conns |-> IF cpc[d] = "none" THEN "none" ELSE "closed"]
    /\ UNCHANGED <<lockVars, queueVars, wname, exit, inbox, rx, consumed, sent>>

\* connection_handler, Err arm of receive_message: shutdown and break.  When
\* shutdown itself fails the expect panics: the thread ends and its TcpStream is
\* dropped, which closes the socket as well.
Shutdown(c) ==
    /\ cpc[c] = "handle" /\ exit[1] = Running
    /\ rx[c].tag # "Ok"
    /\ cpc' = [cpc EXCEPT ![c] = "closed"]
    /\ UNCHANGED <<lockVars, queueVars, wname, exit, inbox, rx, consumed, sent>>

\* connection_handler, Err arm of IncomingMessage::parse: the error is logged
\* and the loop goes on to the next receive_message.
ParseFailed(c) ==
    /\ cpc[c] = "handle" /\ exit[1] = Running
    /\ rx[c].tag = "Ok"
    /\ parse(rx[c].msg) = "IncomingMessageNotDeserialized"
    /\ cpc' = [cpc EXCEPT ![c] = "receive"]
    /\ UNCHANGED <<lockVars, queueVars, wname, exit, inbox, rx, consumed, sent>>

\* handle_message, WhoAreYou: send the response; a failed send is logged and
\* ignored.
HandleWhoAreYou(c) ==
    /\ cpc[c] = "handle" /\ exit[1] = Running
    /\ rx[c].tag = "Ok"
    /\ parse(rx[c].msg) = "who_are_you"
    /\ \/ /\ sent' = [sent EXCEPT ![c] = Append(sent[c], who_are_you_response(1))]
          /\ rx' = [rx EXCEPT ![c].send = "Ok"]
       \/ /\ sent' = sent
          /\ rx' = [rx EXCEPT ![c].send = "OutgoingMessageContentNotWritten"]
    /\ cpc' = [cpc EXCEPT ![c] = "receive"]
    /\ UNCHANGED <<lockVars, queueVars, wname, exit, inbox, consumed>>

\* process::exit(TERMINATION_REQUEST_EXIT_CODE) in worker process w: every thread
\* stops where it is and no destructor runs.  A LockfileHandle it owns is never
\* dropped, and a write_json_lines it was in the middle of leaves the truncated
\* file.  cur keeps the Task it had claimed in the file and not yet committed.
Terminate(w) ==
    /\ exit[w] = Running /\ pc[w] # "dead"
    /\ exit' = [exit EXCEPT ![w] = TERMINATION_REQUEST_EXIT_CODE]
    /\ pc' = [pc EXCEPT ![w] = "dead"]
    /\ lpc' = [lpc EXCEPT ![w] = "none"]
    /\ watch' = [watch EXCEPT ![w] = "none"]
    /\ events' = [events EXCEPT ![w] = {}]
    /\ IF wr = w THEN file' = <<>> /\ wr' = NoOne ELSE UNCHANGED <<file, wr>>
    /\ cur' = [cur EXCEPT ![w] =
                 IF pc[w] \in {"close", "exec", "job", "reopen", "cwbegin", "cwend"}
                   THEN cur[w] ELSE <<>>]
    /\ mem' = [mem EXCEPT ![w] = <<>>]
    /\ UNCHANGED <<marker, site, lres, held, removes, ioFaults, calls,
                   qFaults, fexists, op, res, ops, made, execs>>

\* handle_message, TerminationRequest: the process exits, and with it every
\* connection thread and the listener.
HandleTerminationRequest(c) ==
    /\ cpc[c] = "handle" /\ rx[c].tag = "Ok"
    /\ parse(rx[c].msg) = "termination_request"
    /\ Terminate(1)
    /\ cpc' = [d \in Conns |-> IF cpc[d] = "none" THEN "none" ELSE "closed"]
    /\ UNCHANGED <<wname, inbox, rx, consumed, sent>>

ConnNext ==
    \E c \in Conns :
        \/ ReceiveMessage(c) /\ UNCHANGED pathVars
        \/ Shutdown(c) /\ UNCHANGED pathVars
        \/ ParseFailed(c) /\ UNCHANGED pathVars
        \/ HandleWhoAreYou(c) /\ UNCHANGED pathVars
        \/ HandleTerminationRequest(c) /\ UNCHANGED pathVars

InitConn ==
    LockInit /\ QueueIdle /\ ConnInit /\ ioFaults = 0 /\ PathIdle

SpecConn == InitConn /\ [][ConnNext]_vars

\* ------------------------------- listener and several connections (SpecListen)
\* What a well-behaved peer sends: who_are_you messages only.
GoodInboxes ==
    UNION {[1..n -> {[size |-> INCOMING_MESSAGE_SIZE_LIMIT - 1, body |-> "who_are_you",
                      cut |-> FALSE]}] : n \in 0..MaxFrames}

\* start_listener_thread: listener.accept() returns a new connection and
\* start_connection_thread gives it a thread of its own.
Accept(c) ==
    /\ cpc[c] = "none" /\ exit[1] = Running
    /\ cpc' = [cpc EXCEPT ![c] = "receive"]
    /\ \E i \in GoodInboxes : inbox' = [inbox EXCEPT ![c] = i]
    /\ UNCHANGED <<lockVars, queueVars, wname, exit, rx, consumed, sent>>

ListenNext ==
    \/ ConnNext
    \/ \E c \in Conns : Accept(c) /\ UNCHANGED pathVars

InitListen ==
    LockInit /\ QueueIdle /\ ConnInit /\ ioFaults = 0 /\ PathIdle

SpecListen == InitListen /\ [][ListenNext]_vars

\* --------------------- workers that can be told to terminate (SpecTerm)
\* A termination_request can reach a worker's control socket at any moment.
TermNext ==
    \/ Next
    \/ \E w \in Workers :
          Terminate(w) /\ UNCHANGED <<wname, cpc, inbox, rx, consumed, sent, pathVars>>

InitTerm ==
    LockInit /\ QueueInit /\ IpcIdle /\ ioFaults = 0 /\ qFaults = 0 /\ PathIdle

SpecTerm == InitTerm /\ [][TermNext]_vars

\* ================================================================== claims
\* ----- Lock Manager (SpecLock) -----

\* C1: at most one LockfileHandle for the path is live at any time: no two
\* processes own an unreleased handle together.
C1_MutualExclusion ==
    \A p, q \in Procs : (held[p] /\ held[q]) => p = q

\* C6: while a holder has not released its handle, an acquire by another process
\* returns the already-locked error, produces no handle and leaves the marker as it
\* was (steps in which the disk itself failed are left out).
C6_AcquireWhileLocked ==
    [][\A q \in Procs :
          ( /\ lpc[q] = "create" /\ site[q] = "plain"
            /\ lpc'[q] # lpc[q]
            /\ ioFaults' = ioFaults
            /\ \E p \in Procs \ {q} : held[p] )
          => ( /\ is_already_locked(lres'[q])
               /\ is_file_locked(lres'[q])
               /\ ~held'[q]
               /\ marker' = marker )]_vars

\* C7: acquire_wait hands out a handle only as the result of its own atomic
\* creation of the marker (a handle appears only at the end of the call's own
\* create_lockfile_on_disk, entered only by a create_new that found no marker and
\* made its own), and at the moment it returns the handle no marker created by
\* another process is on disk.
C7_WaitReturnsOwnCreation ==
    [][\A p \in Procs :
          /\ (site'[p] # "plain" /\ ~held[p] /\ held'[p]) => lpc[p] = "write"
          /\ (site'[p] # "plain" /\ lpc[p] # "write" /\ lpc'[p] = "write")
               => (marker = NoOne /\ marker' = p)
          /\ (site'[p] # "plain" /\ ~held[p] /\ held'[p])
               => marker' \in {NoOne, p}]_vars

\* C8: an acquire_wait that found the path locked does not give up: it never
\* returns because its watch could not be set up on a marker that was released.
C8_WaitNeverGivesUp ==
    \A p \in Procs : lres[p].tag # "CannotWatchLockfile"

\* C9: over the life of one handle at most one removal of the marker path is
\* attempted (by unlock or by drop, never by both).
C9_RemovedOnce ==
    \A p \in Procs : removes[p] <= 1

\* ----- Task queue and dispatch (Spec) -----

\* The scenario of C2: the queue file started with exactly one Queued Task, each of
\* the two workers ran take_on_task once, nothing else ran, and both calls returned.
C2_Scenario ==
    /\ made = 1 /\ ops = 2
    /\ \A w \in Workers : op[w].kind = "take" /\ pc[w] = "idle"

\* C2: in that scenario exactly one worker ran the Job and the other reported
\* NoTopQueuedTask.
C2_OneClaimsOtherNoWork ==
    C2_Scenario =>
        /\ execs[1] = 1
        /\ \E w \in Workers : res[w] = "NoTopQueuedTask"

\* C3: the Job of a Task is run at most once, whichever way the Task is selected.
C3_ExecutedAtMostOnce ==
    \A u \in Uuids : execs[u] <= 1

\* C4: a record stored as Done or Failed never changes again, and no record
\* goes back to Queued.
C4_TerminalStatesStay ==
    [][\A i \in 1..Len(file) :
          /\ file[i].state \in {"done", "failed"}
               => (i <= Len(file') /\ file'[i] = file[i])
          /\ file[i].state # "queued"
               => (i <= Len(file') /\ file'[i].state # "queued")]_vars

\* C5: in the queue file every Working Task has start_timestamp and worker_info,
\* every Done or Failed Task has finish_timestamp and result, and a Queued Task
\* has none of the four.
C5_EnvelopeFields ==
    \A i \in 1..Len(file) :
        LET t == file[i] IN
        /\ t.state = "working" => (t.start_timestamp # 0 /\ t.worker_info # 0)
        /\ t.state \in {"done", "failed"}
             => (t.finish_timestamp # 0 /\ t.result # "none")
        /\ t.state = "queued"
             => /\ t.start_timestamp = 0 /\ t.worker_info = 0
                /\ t.finish_timestamp = 0 /\ t.result = "none"

\* C5 witness: the file holds a Task that was finished and then claimed again next
\* to a Task nobody has touched.
C5_Witness ==
    /\ \E i \in 1..Len(file) :
          file[i].state = "working" /\ file[i].finish_timestamp # 0
    /\ wr = NoOne

\* C10: a write of the queue file in progress belongs to the process whose marker
\* is on disk, at most one write is in progress, and a process that is about to
\* read the file under its lock finds no write in progress.
C10_WritesUnderLock ==
    /\ wr # NoOne => (marker = wr /\ held[wr])
    /\ \A w \in Workers :
          /\ pc[w] \in {"wbegin", "cwbegin", "wend", "cwend"}
               => (marker = w /\ held[w])
          /\ pc[w] \in {"wend", "cwend"} => wr = w
          /\ (pc[w] \in {"open", "reopen"} /\ lpc[w] = "none" /\ held[w])
               => wr = NoOne

\* C10 witness: one process is in the middle of overwriting the file while another
\* waits for the lock on its notification channel.
C10_Witness ==
    \E w, v \in Workers : wr = w /\ v # w /\ lpc[v] = "recv"

\* C11: while a worker runs a Job (after close(), before reopen()) it holds no lock
\* on the queue file: it owns no handle for the path and the marker on disk, if
\* any, is not one it created, so the lock is there for any other process to take.
C11_NoLockDuringJob ==
    \A w \in Workers :
        pc[w] \in {"exec", "job"} => (~held[w] /\ marker # w)

\* C12: when execute_task releases the lock after the claim (close), the queue
\* file already holds the Task as Working with this worker's start_timestamp and
\* worker_info, written under the worker's own lock; a Job only starts for a Task
\* the file does not show as Queued; and a claim write that fails ends the call
\* without running the Job.
C12_MarkBeforeJob ==
    [][\A w \in Workers :
          /\ (pc[w] = "close" /\ pc'[w] = "exec")
               => LET i == get_task_mut(file, cur[w][1].uuid) IN
                  /\ held[w] /\ marker = w /\ wr = NoOne
                  /\ i # 0
                  /\ file[i].state = "working"
                  /\ file[i].start_timestamp = op[w].n
                  /\ file[i].worker_info = w
          /\ (pc[w] = "exec" /\ pc'[w] # "exec")
               => LET i == get_task_mut(file, cur[w][1].uuid) IN
                  i # 0 => file[i].state # "queued"
          /\ (pc[w] # "exec" /\ pc'[w] # pc[w]) => execs' = execs
          /\ (pc[w] \in {"wbegin", "wend"} /\ res'[w] = "CannotWriteQueue")
               => pc'[w] = "drop"
          /\ (pc[w] = "drop" /\ pc'[w] # "drop") => pc'[w] = "idle"]_vars

\* C12 witness: a worker is about to run the Job of a Task it marked, after
\* another worker's claim write failed and ran nothing.
C12_Witness ==
    \E w, v \in Workers :
        /\ pc[w] = "exec" /\ pc[v] = "idle" /\ res[v] = "CannotWriteQueue"
        /\ \A u \in Uuids : execs[u] = 0

\* C13: the commit write replaces the record with the worker's uuid and nothing
\* else: the file keeps its length and every record with another uuid is, after
\* the write, exactly what the file held before it.
C13_CommitKeepsOthers ==
    [][\A w \in Workers :
          (pc[w] = "cwend" /\ pc'[w] # "cwend")
            => /\ Len(file') = Len(file)
               /\ \A i \in 1..Len(file) :
                     IF file[i].uuid = cur[w][1].uuid
                       THEN file'[i] = cur[w][1]
                       ELSE file'[i] = file[i]]_vars

\* C13 witness: a commit has been written to a file that holds another Task
\* which was added or claimed after this worker's claim.
C13_Witness ==
    \E w \in Workers :
        /\ pc[w] = "drop" /\ res[w] = "Ok" /\ op[w].kind # "add"
        /\ \E i \in 1..Len(file) :
              /\ file[i].uuid # cur[w][1].uuid
              /\ \/ file[i].request_timestamp > cur[w][1].start_timestamp
                 \/ file[i].start_timestamp > cur[w][1].start_timestamp

\* C14: the commit write sets state (Done or Failed), finish_timestamp and result
\* of the worker's record and leaves its uuid, job, request_timestamp,
\* start_timestamp and worker_info as the file held them just before the write.
C14_CommitFrame ==
    [][\A w \in Workers :
          (pc[w] = "cwend" /\ pc'[w] # "cwend")
            => LET i == get_task_mut(file, cur[w][1].uuid) IN
               /\ i # 0
               /\ file'[i].state \in {"done", "failed"}
               /\ file'[i].finish_timestamp # 0
               /\ file'[i].result # "none"
               /\ file'[i].uuid = file[i].uuid
               /\ file'[i].job = file[i].job
               /\ file'[i].request_timestamp = file[i].request_timestamp
               /\ file'[i].start_timestamp = file[i].start_timestamp
               /\ file'[i].worker_info = file[i].worker_info]_vars

\* C15: a Job whose run returned an error is recorded as data: execute_task_body
\* makes the Task Failed with an error result and a finish_timestamp and goes on
\* to the commit, and the dispatch of such a Task returns Ok with the Failed
\* record in the queue file.
C15_JobErrorIsData ==
    [][\A w \in Workers :
          /\ (pc[w] = "job" /\ pc'[w] \notin {"job", "dead"}
                /\ cur[w][1].job = "process_video")
               => /\ cur'[w][1].state = "failed"
                  /\ cur'[w][1].result = "error"
                  /\ cur'[w][1].finish_timestamp # 0
                  /\ pc'[w] = "reopen"
          /\ (pc[w] # "idle" /\ pc'[w] = "idle"
                /\ cur[w] # <<>> /\ cur[w][1].state = "failed")
               => LET i == get_task_mut(file', cur[w][1].uuid) IN
                  /\ res'[w] = "Ok"
                  /\ i # 0
                  /\ file'[i].state = "failed"
                  /\ file'[i].result = "error"
                  /\ file'[i].finish_timestamp # 0]_vars

\* C16: a protocol step that fails after the claim was written (reopen, update_task
\* or the commit write) gives its own error (CannotReopenQueue, CannotUpdateTask
\* only when the uuid is not in the file, CannotWriteQueue), and the Task's record,
\* where the file still has it, is Working with no finish_timestamp and no result.
C16_ProtocolFailure ==
    [][\A w \in Workers :
          ( /\ pc[w] \in {"reopen", "cwbegin", "cwend"}
            /\ res'[w] \notin {"none", "Ok"} )
          => LET u == cur[w][1].uuid
                 i == get_task_mut(file', u)
             IN  /\ pc[w] = "reopen" => res'[w] \in {"CannotReopenQueue", "CannotUpdateTask"}
                 /\ pc[w] # "reopen" => res'[w] = "CannotWriteQueue"
                 /\ res'[w] = "CannotUpdateTask" <=> (held[w] /\ qFaults' = qFaults
                                                       /\ get_task_mut(ReadFile, u) = 0)
                 /\ i # 0 => /\ file'[i].state = "working"
                              /\ file'[i].finish_timestamp = 0
                              /\ file'[i].result = "none"]_vars

\* C17: a take_on_task that runs while the queue file has never existed returns
\* NoTopQueuedTask, the file still does not exist, no Job has run and the call's
\* marker is gone; and a take_on_task that reads a queue without a Queued Task
\* reports NoTopQueuedTask and goes on to release the lock without writing.
C17_NoWork ==
    [][\A w \in Workers :
          /\ (op[w].kind = "take" /\ pc[w] # "idle" /\ pc'[w] = "idle" /\ made = 0)
               => /\ res'[w] = "NoTopQueuedTask"
                  /\ ~fexists' /\ file' = <<>>
                  /\ marker' # w /\ ~held'[w]
                  /\ \A u \in Uuids : execs'[u] = 0
          /\ (op[w].kind = "take" /\ pc[w] = "open" /\ pc'[w] # "open" /\ held[w]
                /\ top_queued_task_mut(ReadFile) = 0)
               => /\ res'[w] = "NoTopQueuedTask"
                  /\ pc'[w] = "drop"
                  /\ file' = file /\ fexists' = fexists /\ execs' = execs]_vars

\* C18: an execute_task_with_uuid whose uuid no Task of the queue file has returns
\* TaskNotFound; the file is as it was, no Job of that uuid has run and the
\* call's marker is gone.
C18_TaskNotFound ==
    [][\A w \in Workers :
          (op[w].kind = "uuid" /\ pc[w] # "idle" /\ pc'[w] = "idle"
            /\ get_task_mut(file, op[w].uuid) = 0 /\ cur[w] = <<>>)
          => /\ res'[w] = "TaskNotFound"
             /\ res'[w] # "NoTopQueuedTask"
             /\ file' = file /\ fexists' = fexists
             /\ execs'[op[w].uuid] = 0
             /\ marker' # w /\ ~held'[w]]_vars

C20_AddTask ==
    [][(op'[1].kind = "add_task" /\ ops' # ops)
         => LET q == mem[1]
                t == cur'[1][1]
            IN  IF \E i \in 1..Len(q) : q[i].uuid = t.uuid
                  THEN /\ res'[1] = "TaskAlreadyExists"
                       /\ mem'[1] = q
                  ELSE /\ res'[1] = "Ok"
                       /\ Len(mem'[1]) = Len(q) + 1
                       /\ mem'[1][Len(q) + 1] = t
                       /\ \A i \in 1..Len(q) : mem'[1][i] = q[i]]_vars

\* C20 witness: add_task was refused for a Task whose uuid is in a queue of
\* several Tasks, stored there with other contents.
C20_Witness ==
    /\ op[1].kind = "add_task" /\ res[1] = "TaskAlreadyExists"
    /\ Len(mem[1]) = MaxLen
    /\ \E i \in 1..Len(mem[1]) :
          mem[1][i].uuid = cur[1][1].uuid /\ mem[1][i] # cur[1][1]

\* C21: update_task with a uuid that is not in the queue returns TaskNotFound
\* and leaves the queue as it was; with a uuid that is in the queue it returns Ok
\* and replaces that one record in place: same length, the record at the same
\* position is the given Task, every other record is unchanged.
C21_UpdateTask ==
    [][(op'[1].kind = "update_task" /\ ops' # ops)
         => LET q == mem[1]
                t == cur'[1][1]
                P == {i \in 1..Len(q) : q[i].uuid = t.uuid}
            IN  IF P = {}
                  THEN /\ res'[1] = "TaskNotFound"
                       /\ mem'[1] = q
                  ELSE /\ res'[1] = "Ok"
                       /\ Len(mem'[1]) = Len(q)
                       /\ \A i \in 1..Len(q) :
                             mem'[1][i] = IF i \in P THEN t ELSE q[i]]_vars

\* C21 witness: update_task replaced the second record of a queue by a Task with
\* other contents, and the first record is still there.
C21_Witness ==
    /\ op[1].kind = "update_task" /\ res[1] = "Ok"
    /\ Len(mem[1]) = MaxLen /\ Len(file) = MaxLen
    /\ mem[1][MaxLen] = cur[1][1] /\ file[MaxLen] # cur[1][1]
    /\ mem[1][1] = file[1]

\* C22: no two Tasks of the open queue share a uuid, whatever add_task,
\* update_task and add_or_update_task are called with; and add_or_update_task
\* never fails and leaves exactly one record for the uuid: the given Task, in the
\* old record's position when the uuid was there, appended otherwise.
C22_UniqueUuids ==
    [][/\ \A i, k \in 1..Len(mem'[1]) : mem'[1][i].uuid = mem'[1][k].uuid => i = k
       /\ (op'[1].kind = "add_or_update_task" /\ ops' # ops)
            => LET q == mem[1]
                   t == cur'[1][1]
                   P == {i \in 1..Len(q) : q[i].uuid = t.uuid}
               IN  /\ res'[1] = "Ok"
                   /\ Cardinality({i \in 1..Len(mem'[1]) : mem'[1][i].uuid = t.uuid}) = 1
                   /\ IF P = {}
                        THEN mem'[1] = Append(q, t)
                        ELSE /\ Len(mem'[1]) = Len(q)
                             /\ \A i \in 1..Len(q) :
                                   mem'[1][i] = IF i \in P THEN t ELSE q[i]]_vars

\* C22 witness: add_or_update_task replaced a record of a full queue in place.
C22_Witness ==
    /\ op[1].kind = "add_or_update_task"
    /\ Len(mem[1]) = MaxLen /\ Len(file) = MaxLen
    /\ mem[1] # file
    /\ \E i \in 1..MaxLen : mem[1][i] = cur[1][1] /\ file[i].uuid = cur[1][1].uuid

\* C23: top_queued_task and top_queued_task_mut return the Queued Task in the
\* lowest position of the queue, and None exactly when no Task is Queued; the
\* queue is left as it was.
C23_TopQueued ==
    [][(op'[1].kind \in {"top_queued_task", "top_queued_task_mut"} /\ ops' # ops)
         => LET q == mem[1]
                S == {i \in 1..Len(q) : q[i].state = "queued"}
            IN  /\ mem'[1] = q
                /\ (res'[1] = "None") <=> (S = {})
                /\ IF S = {}
                     THEN cur'[1] = <<>>
                     ELSE /\ res'[1] = "Some"
                          /\ \E i \in S : /\ cur'[1] = <<q[i]>>
                                          /\ \A k \in S : i <= k]_vars

\* C23 witness: two Tasks of the queue are Queued and the first was returned.
C23_Witness ==
    /\ op[1].kind = "top_queued_task_mut" /\ res[1] = "Some"
    /\ Len(mem[1]) = MaxLen
    /\ mem[1][MaxLen - 1].state = "queued" /\ mem[1][MaxLen].state = "queued"
    /\ cur[1] = <<mem[1][MaxLen - 1]>>

\* C26: when a line of the queue file is malformed (not JSON, a missing or
\* ill-typed field, a uuid string that is not a UUID), read_or_create_new_safe
\* returns an error, yields no queue, and the process goes on.
C26_MalformedRecord ==
    [][(pc[1] = "open" /\ op'[1].kind = "read_or_create_new_safe"
          /\ op'[1].arg \in MalformedKinds)
         => /\ res'[1] = "CannotDeserializeJSONLines"
            /\ mem'[1] = <<>>
            /\ pc'[1] = "idle"]_vars

C27_BadMessageClosesConnection ==
    [][\A c \in Conns :
          /\ ( /\ cpc[c] = "handle" /\ cpc'[c] # "handle"
               /\ (rx[c].tag # "Ok" \/ parse(rx[c].msg) = "IncomingMessageNotDeserialized") )
               => /\ cpc'[c] = "closed"
                  /\ sent'[c] = sent[c]
                  /\ exit' = exit
          /\ cpc[c] = "closed"
               => (cpc'[c] = "closed" /\ inbox'[c] = inbox[c] /\ sent'[c] = sent[c])]_vars

\* C28: a length prefix above 1 048 576 is rejected with IncomingMessageTooLarge
\* with no buffer allocated and no body byte read, and the connection is then
\* shut down; a prefix of at most 1 048 576 is accepted and, when the body
\* arrives, exactly that many body bytes are read.
C28_SizeLimit ==
    [][\A c \in Conns :
          /\ (cpc[c] = "receive" /\ cpc'[c] = "handle" /\ inbox[c] # <<>>)
               => LET f == Head(inbox[c])
                  IN  IF f.size > 1048576
                        THEN /\ rx'[c].tag = "IncomingMessageTooLarge"
                             /\ rx'[c].buf = 0 /\ rx'[c].read = 0
                             /\ consumed'[c] = consumed[c]
                        ELSE /\ rx'[c].tag # "IncomingMessageTooLarge"
                             /\ rx'[c].buf = f.size
                             /\ ~f.cut => /\ rx'[c].tag = "Ok"
                                          /\ rx'[c].read = f.size
                                          /\ consumed'[c] = consumed[c] + f.size
          /\ (cpc[c] = "handle" /\ rx[c].tag = "IncomingMessageTooLarge" /\ cpc'[c] # cpc[c])
               => (cpc'[c] = "closed" /\ sent'[c] = sent[c] /\ inbox'[c] = inbox[c])]_vars

\* C28 witness: a frame of exactly 1 048 576 bytes was read in full, and the next
\* frame, one byte longer, was rejected and the connection shut down.
C28_Witness ==
    /\ cpc[1] = "closed"
    /\ rx[1].tag = "IncomingMessageTooLarge"
    /\ consumed[1] = 1048576

\* C29: every who_are_you whose response can be written gets exactly one
\* who_are_you_response, whose name is the worker's WorkerInfo name and whose pid
\* is the process id.
C29_WhoAreYouResponse ==
    [][\A c \in Conns :
          ( /\ cpc[c] = "handle" /\ cpc'[c] # "handle"
            /\ rx[c].tag = "Ok" /\ parse(rx[c].msg) = "who_are_you"
            /\ rx'[c].send = "Ok" )
            => /\ Len(sent'[c]) = Len(sent[c]) + 1
               /\ \A i \in 1..Len(sent[c]) : sent'[c][i] = sent[c][i]
               /\ sent'[c][Len(sent'[c])] = [type |-> "who_are_you_response",
                                             name |-> wname, pid |-> Pid(1)]]_vars

\* C30: a termination_request makes the process exit with code 100 and nothing
\* is sent; and a Task the worker had claimed and not yet committed is then, and
\* stays, Working in the queue file with start_timestamp and worker_info set.
C30_TerminationRequest ==
    [][\A w \in Workers :
          /\ exit'[w] # exit[w] => (exit'[w] = 100 /\ sent' = sent)
          /\ (exit'[w] # Running /\ cur'[w] # <<>>)
               => LET i == get_task_mut(file', cur'[w][1].uuid)
                  IN  /\ i # 0
                      /\ file'[i].state = "working"
                      /\ file'[i].start_timestamp # 0
                      /\ file'[i].worker_info # 0]_vars

\* C31: while the process runs, the listener can accept a connection that has
\* not been made yet and a connection that has received a who_are_you can answer
\* it, whatever happened on the other connection; and a step of one connection
\* in which no termination_request is handled (so every receive error, parse
\* error, shutdown and failed send) leaves the other connections and the process
\* as they were.
C31_ErrorsStayLocal ==
    /\ [](\A c \in Conns :
             exit[1] = Running
               => /\ cpc[c] = "none" => ENABLED Accept(c)
                  /\ cpc[c] = "receive" => ENABLED ReceiveMessage(c)
                  /\ ( /\ cpc[c] = "handle" /\ rx[c].tag = "Ok"
                       /\ parse(rx[c].msg) = "who_are_you" )
                       => ENABLED HandleWhoAreYou(c))
    /\ [][\A c, d \in Conns :
             ( /\ c # d
               /\ <<cpc[c], inbox[c], rx[c], sent[c]>>' # <<cpc[c], inbox[c], rx[c], sent[c]>>
               /\ ~\E e \in Conns :
                      /\ cpc[e] = "handle" /\ cpc'[e] # "handle"
                      /\ rx[e].tag = "Ok" /\ parse(rx[e].msg) = "termination_request" )
               => /\ exit' = exit
                  /\ <<cpc[d], inbox[d], rx[d], consumed[d], sent[d]>>'
                       = <<cpc[d], inbox[d], rx[d], consumed[d], sent[d]>>]_vars

\* C31 witness: connection 1 was shut down for an oversize prefix after a parse
\* failure or answer, and connection 2, accepted by the listener, has had every
\* who_are_you answered.
C31_Witness ==
    /\ cpc[1] = "closed" /\ rx[1].tag = "IncomingMessageTooLarge"
    /\ exit[1] = Running
    /\ cpc[2] = "receive" /\ inbox[2] = <<>>
    /\ Len(sent[2]) = MaxFrames

\* ----- Lock Manager, release and waiting (SpecLock) -----

\* C33: a release (unlock, or the drop of a handle) never deletes a marker that
\* another process created: whenever a process calls remove_file for its handle,
\* the marker on disk is its own or there is none; so a holder's marker stays
\* until the holder itself releases.
C33_ReleaseRemovesOwnMarker ==
    [][\A p \in Procs :
          /\ removes'[p] > removes[p] => marker \in {NoOne, p}
          /\ (held[p] /\ held'[p] /\ marker = p) => marker' = p]_vars

\* C34: when acquire (alone or inside acquire_wait) returns an error, no marker
\* that this call created is left on disk.
C34_FailedAcquireLeavesNoMarker ==
    [][\A p \in Procs :
          ( /\ lpc[p] \in {"create", "write"} /\ lpc'[p] = "none"
            /\ lres'[p] # Ok )
            => marker' # p]_vars

\* C35: in acquire_wait every notification taken from the channel is followed by
\* a new create attempt; a handle comes only out of the call's own create; and a
\* waiter whose create attempt after a notification found the marker there
\* re-arms its watch and goes on waiting.
C35_WakeUpRetriesCreate ==
    [][\A p \in Procs :
          /\ (lpc[p] = "recv" /\ lpc'[p] # "recv") => lpc'[p] = "create"
          /\ (~held[p] /\ held'[p]) => lpc[p] = "write"
          /\ (lpc[p] = "create" /\ lpc'[p] # "create" /\ site[p] = "notification"
                /\ ~CreateNewOk(marker) /\ ioFaults' = ioFaults)
               => lpc'[p] = "rewatch"
          /\ (lpc[p] = "rewatch" /\ lpc'[p] # "rewatch")
               => (lpc'[p] = "recv" /\ watch'[p] = "live")]_vars

\* ----- Dispatch, the claim step (Spec) -----

\* C36: the claim write of execute_task keeps the number of records, gives the
\* selected Task state Working with this worker's start_timestamp and worker_info,
\* leaves its uuid, name, comment, job, request_timestamp, finish_timestamp and
\* result as the file held them, and writes every other record back as it was read.
C36_ClaimFrame ==
    [][\A w \in Workers :
          (pc[w] = "wend" /\ pc'[w] = "close")
            => LET i == task_getter(op[w], file) IN
               /\ i # 0
               /\ Len(file') = Len(file)
               /\ file'[i].state = "working"
               /\ file'[i].start_timestamp = op[w].n
               /\ file'[i].worker_info = w
               /\ file'[i].uuid = file[i].uuid
               /\ file'[i].name = file[i].name
               /\ file'[i].comment = file[i].comment
               /\ file'[i].job = file[i].job
               /\ file'[i].request_timestamp = file[i].request_timestamp
               /\ file'[i].finish_timestamp = file[i].finish_timestamp
               /\ file'[i].result = file[i].result
               /\ \A k \in 1..Len(file) : k # i => file'[k] = file[k]]_vars

\* C36 witness: a claim has been written to a file that holds another Task, and
\* the claimed record was requested before it was started.
C36_Witness ==
    \E w \in Workers :
        /\ pc[w] = "close" /\ Len(file) >= 2
        /\ LET i == get_task_mut(file, cur[w][1].uuid) IN
             /\ i # 0
             /\ file[i].state = "working"
             /\ file[i].request_timestamp < file[i].start_timestamp

\* ----- Dispatch, a worker that dies inside a Job (SpecTerm) -----

\* C37: a worker that dies while it executes a Job (a panic of the Job, or a
\* termination_request) owns no handle then and leaves no marker of its own on
\* the queue path; and the record it left Working in the queue file stays in
\* the file exactly as that worker wrote it (Working, its start_timestamp and
\* worker_info), whatever any process does, and no take_on_task selects it.
C37_DeadWorkerTaskStaysWorking ==
    [][\A w \in Workers :
          /\ (pc[w] \in {"exec", "job"} /\ pc'[w] = "dead")
               => (marker' # w /\ ~held'[w])
          /\ ( /\ pc[w] = "dead" /\ cur[w] # <<>>
               /\ cur[w][1].state = "working"
               /\ get_task_mut(file, cur[w][1].uuid) # 0
               /\ file[get_task_mut(file, cur[w][1].uuid)] = cur[w][1] )
               => /\ get_task_mut(file', cur[w][1].uuid) # 0
                  /\ file'[get_task_mut(file', cur[w][1].uuid)] = cur[w][1]
                  /\ \A v \in Workers :
                        ( /\ op[v].kind = "take"
                          /\ pc[v] = "open" /\ pc'[v] = "wbegin" )
                          => cur'[v][1].uuid # cur[w][1].uuid]_vars

\* ----- Lock marker paths (SpecPath) -----

\* C32: the marker path lockfile_path_for returns lies in the directory of the
\* guarded path and its file name is the guarded file's name followed by
\* `.lockfile`, so `./directory/subdir/test.txt` is guarded by
\* `./directory/subdir/test.txt.lockfile`; and two callers that guard different
\* paths get different marker paths.
C32_MarkerPath ==
    /\ \A c \in Callers :
          lockfile_path[c].tag = "Ok"
            => /\ parent(lockfile_path[c].path) = parent(main_file_path[c])
               /\ file_name(lockfile_path[c].path)
                     = file_name(main_file_path[c]) \o <<".lockfile">>
               /\ main_file_path[c]
                     = [prefix |-> "cur",
                        comps |-> << <<"directory">>, <<"subdir">>, <<"test.txt">> >>]
                    => lockfile_path[c].path
                         = [prefix |-> "cur",
                            comps |-> << <<"directory">>, <<"subdir">>,
                                         <<"test.txt", ".lockfile">> >>]
    /\ \A c, d \in Callers :
          ( /\ lockfile_path[c].tag = "Ok" /\ lockfile_path[d].tag = "Ok"
            /\ main_file_path[c] # main_file_path[d] )
            => lockfile_path[c].path # lockfile_path[d].path

\* C38: the path Worker::open_queue guards is not the library database path of
\* the Config, and the marker of the queue is not the marker of the library
\* database a Job opens.
C38_QueueIsNotLibrary ==
    /\ main_file_path["open_queue"] # NoPath
          => main_file_path["open_queue"] # library_database_path(config)
    /\ ( /\ lockfile_path["open_queue"].tag = "Ok"
         /\ lockfile_path["open_library_database"].tag = "Ok" )
          => /\ main_file_path["open_queue"] # main_file_path["open_library_database"]
             /\ lockfile_path["open_queue"].path
                   # lockfile_path["open_library_database"].path

====
